---------------------------- MODULE Spec2Model ----------------------------
(***************************************************************************)
(* Grid path search of ROBOT.py: is_valid_move, bfs and dfs, modelled one  *)
(* loop iteration at a time, and the handlers of RobotPuzzleApp that edit   *)
(* the grid, start the searches and play the returned path.  Cells are     *)
(* pairs <<x, y>> with x the row and y the column, 0-based as in the       *)
(* source.  What the canvas shows is not modelled.                         *)
(***************************************************************************)
EXTENDS Integers, Sequences, FiniteSets, TLC

VARIABLES
    grid,       \* grid[x][y] = 0 (free) or 1 (blocked); rows and columns 0-based
    start,      \* the start cell passed to the call
    end,        \* the destination cell passed to the call
    algo,       \* "bfs" or "dfs": the function whose call is in progress (or ran last)
    pc,         \* "idle" | "loop" | "reconstruct" | "fault"
    frontier,   \* the deque `queue` of bfs / the list `stack` of dfs
    visited,    \* visited[x][y], the per-call visited matrix
    parent,     \* the per-call dict parent: cell -> cell or None
    current,    \* the local `current`
    path,       \* the local `path` being collected from the destination backwards
    result,     \* result[a]: what the last finished call of a returned
    returned,   \* the functions that have returned at least once
    pops,       \* number of cells removed from the frontier by the call in progress
    robot,      \* self.robot is set (the robot item has been created)
    timers      \* the move_robot callbacks scheduled with root.after, oldest first

vars == <<grid, start, end, algo, pc, frontier, visited, parent, current, path,
          result, returned, pops, robot, timers>>

\* The state of RobotPuzzleApp beside its grid, start and end
appVars == <<robot, timers>>

-----------------------------------------------------------------------------
(* Bounds of the model *)

\* The shapes (rows, cols) of the grids explored.
GridShapes == {<<3, 3>>, <<2, 3>>, <<1, 3>>}

\* The shapes explored when start and destination range outside the grid too.
AnyShapes == {<<2, 2>>}

\* The shapes explored when whole behaviours are checked for termination.
FairShapes == {<<2, 3>>, <<3, 2>>}

\* At most this many cells of a grid are blocked.
MaxBlocked == 3

\* self.grid_size of the application explored (the source sets 10).
GridSize == 2

\* At most this many animations are in progress at a time.
MaxAnimations == 2

\* self.cell_size: size of each cell in pixels
cell_size == 50

-----------------------------------------------------------------------------
(* Python values *)

\* None, the "no predecessor" sentinel; like None it is falsy, while every
\* cell, a 2-tuple, is truthy.
None == <<>>

Truthy(v) == v # None

\* len(grid) and len(grid[0])
NumRows(g) == Cardinality(DOMAIN g)

NumCols(g) == Cardinality(DOMAIN g[0])

\* Python list indexing: i is a legal index of a list of length n iff
\* -n <= i < n, and a negative index counts from the end.
IndexOk(i, n) == -n <= i /\ i < n

PyIndex(i, n) == IF i < 0 THEN i + n ELSE i

\* Variant: the last offset mistyped as a diagonal
directions_diagonal == << <<-1, 0>>, <<1, 0>>, <<0, -1>>, <<1, 1>> >>

\* Variant: the offsets listed right, left, down, up
directions_reordered == << <<0, 1>>, <<0, -1>>, <<1, 0>>, <<-1, 0>> >>

\* Directions for robot movement (Up, Down, Left, Right)
directions == << <<-1, 0>>, <<1, 0>>, <<0, -1>>, <<0, 1>> >>

\* Variant: the occupancy test left out
is_valid_move_ignoresBlocked(x, y, g, vis) ==
    /\ 0 <= x /\ x < NumRows(g)
    /\ 0 <= y /\ y < NumCols(g)
    /\ ~vis[x][y]

\* Variant: the visited test left out
is_valid_move_ignoresVisited(x, y, g, vis) ==
    /\ 0 <= x /\ x < NumRows(g)
    /\ 0 <= y /\ y < NumCols(g)
    /\ g[x][y] = 0

is_valid_move(x, y, g, vis) ==
    /\ 0 <= x /\ x < NumRows(g)
    /\ 0 <= y /\ y < NumCols(g)
    /\ g[x][y] = 0
    /\ ~vis[x][y]

\* create_grid(rows, cols)
create_grid(rows, cols) == [x \in 0..(rows - 1) |-> [y \in 0..(cols - 1) |-> 0]]

\* The visited matrix built at the start of a call: all False.
NewVisited(g) ==
    [x \in 0..(NumRows(g) - 1) |-> [y \in 0..(NumCols(g) - 1) |-> FALSE]]

\* visited[x][y] = True, x and y being legal indexes
MarkVisited(vis, x, y) ==
    LET i == PyIndex(x, Cardinality(DOMAIN vis))
        j == PyIndex(y, Cardinality(DOMAIN vis[0]))
    IN  [vis EXCEPT ![i][j] = TRUE]

\* Variant: the cell recorded as its own predecessor
SetParent_self(par, cell, pred) ==
    [c \in DOMAIN par \cup {cell} |-> IF c = cell THEN cell ELSE par[c]]

\* parent[cell] = pred: a dict assignment adds the key or overwrites its value
SetParent(par, cell, pred) ==
    [c \in DOMAIN par \cup {cell} |-> IF c = cell THEN pred ELSE par[c]]

\* Variant: both searches take the newest element (bfs written with pop())
PopIndex_lifo(a, q) == Len(q)

\* Variant: the two disciplines exchanged
PopIndex_swapped(a, q) == IF a = "bfs" THEN Len(q) ELSE 1

\* queue.popleft() of bfs, stack.pop() of dfs: the index of the element removed
PopIndex(a, q) == IF a = "bfs" THEN 1 ELSE Len(q)

RemoveAt(q, i) == [k \in 1..(Len(q) - 1) |-> IF k < i THEN q[k] ELSE q[k + 1]]

\* queue.append(cell) of bfs, stack.append(cell) of dfs
Push(a, q, cell) == Append(q, cell)

\* Variant: the reversal forgotten
Reverse_identity(s) == s

\* Variant: the reversal stops one element early and loses the cell collected last
RECURSIVE Reverse_dropsLast(_)
Reverse_dropsLast(s) ==
    IF Len(s) <= 1 THEN <<>> ELSE Append(Reverse_dropsLast(Tail(s)), Head(s))

\* path[::-1]
RECURSIVE Reverse(_)
Reverse(s) == IF s = <<>> THEN <<>> ELSE Append(Reverse(Tail(s)), Head(s))

\* The for loop over directions, from the i-th direction on; st holds the
\* frontier, the visited matrix and the parent dict.
RECURSIVE Explore(_, _, _, _, _)
Explore(i, a, cur, g, st) ==
    IF i > Len(directions) THEN st
    ELSE LET new_x == cur[1] + directions[i][1]
             new_y == cur[2] + directions[i][2]
         IN  IF is_valid_move(new_x, new_y, g, st.visited)
             THEN Explore(i + 1, a, cur, g,
                          [visited  |-> MarkVisited(st.visited, new_x, new_y),
                           frontier |-> Push(a, st.frontier, <<new_x, new_y>>),
                           parent   |-> SetParent(st.parent, <<new_x, new_y>>, cur)])
             ELSE Explore(i + 1, a, cur, g, st)

-----------------------------------------------------------------------------
(* Inputs *)

Cells(shape) == {<<x, y>> : x \in 0..(shape[1] - 1), y \in 0..(shape[2] - 1)}

\* The cells of a grid
GridCells(g) == {<<x, y>> : x \in 0..(NumRows(g) - 1), y \in 0..(NumCols(g) - 1)}

Blocked(g) == {c \in GridCells(g) : g[c[1]][c[2]] = 1}

InBounds(c, g) == c \in GridCells(g)

\* The grid with exactly the cells of B blocked
GridOf(shape, B) ==
    [x \in 0..(shape[1] - 1) |-> [y \in 0..(shape[2] - 1) |->
        IF <<x, y>> \in B THEN 1 ELSE 0]]

Grids(shape) ==
    {GridOf(shape, B) : B \in {S \in SUBSET Cells(shape) : Cardinality(S) <= MaxBlocked}}

\* Coordinates around a grid: legal, wrapping and illegal indexes
AnyCells(shape) == ((-(shape[1] + 1))..shape[1]) \X ((-(shape[2] + 1))..shape[2])

-----------------------------------------------------------------------------
(* The state machine *)

Idle ==
    /\ algo = "bfs"
    /\ pc = "idle"
    /\ frontier = <<>>
    /\ visited = NewVisited(grid)
    /\ parent = [c \in {} |-> None]
    /\ current = None
    /\ path = <<>>
    /\ result = [a \in {"bfs", "dfs"} |-> <<>>]
    /\ returned = {}
    /\ pops = 0
    /\ robot = FALSE
    /\ timers = <<>>

Init ==
    /\ \E shape \in GridShapes :
          /\ grid \in Grids(shape)
          /\ start \in Cells(shape)
          /\ end \in Cells(shape)
    /\ Idle

\* Variant: the visited matrix kept from one call to the next
Call_keepsVisited(a) ==
    /\ pc = "idle"
    /\ algo' = a
    /\ pops' = 0
    /\ path' = <<>>
    /\ current' = None
    /\ frontier' = <<start>>
    /\ visited' = MarkVisited(visited, start[1], start[2])
    /\ parent' = [c \in {start} |-> None]
    /\ pc' = "loop"
    /\ UNCHANGED <<grid, start, end, result, returned>>

\* bfs(start, end, grid) / dfs(start, end, grid) up to the loop: the frontier
\* holds start, start is marked visited, parent is {start: None}.  Marking
\* raises IndexError when start is no legal index of the matrix.
Call(a) ==
    /\ pc = "idle"
    /\ algo' = a
    /\ pops' = 0
    /\ path' = <<>>
    /\ current' = None
    /\ frontier' = <<start>>
    /\ IF IndexOk(start[1], NumRows(grid)) /\ IndexOk(start[2], NumCols(grid))
       THEN /\ visited' = MarkVisited(NewVisited(grid), start[1], start[2])
            /\ parent' = [c \in {start} |-> None]
            /\ pc' = "loop"
       ELSE /\ visited' = NewVisited(grid)
            /\ parent' = [c \in {} |-> None]
            /\ pc' = "fault"
    /\ UNCHANGED <<grid, start, end, result, returned>>

\* Variant: the cell removed is marked in the grid itself
Expand_marksGrid ==
    /\ pc = "loop"
    /\ frontier # <<>>
    /\ LET i    == PopIndex(algo, frontier)
           cur  == frontier[i]
           rest == RemoveAt(frontier, i)
       IN  /\ current' = cur
           /\ pops' = pops + 1
           /\ grid' = [grid EXCEPT ![cur[1]][cur[2]] = 1]
           /\ IF cur = end
              THEN /\ pc' = "reconstruct"
                   /\ frontier' = rest
                   /\ UNCHANGED <<visited, parent>>
              ELSE LET st == Explore(1, algo, cur, grid,
                                     [visited |-> visited, frontier |-> rest,
                                      parent |-> parent])
                   IN  /\ pc' = "loop"
                       /\ frontier' = st.frontier
                       /\ visited' = st.visited
                       /\ parent' = st.parent
    /\ UNCHANGED <<start, end, algo, path, result, returned>>

\* One iteration of `while queue:` / `while stack:`: remove a cell; if it is
\* the destination go on to reconstruct the path, else try the four moves.
Expand ==
    /\ pc = "loop"
    /\ frontier # <<>>
    /\ LET i    == PopIndex(algo, frontier)
           cur  == frontier[i]
           rest == RemoveAt(frontier, i)
       IN  /\ current' = cur
           /\ pops' = pops + 1
           /\ IF cur = end
              THEN /\ pc' = "reconstruct"
                   /\ frontier' = rest
                   /\ UNCHANGED <<visited, parent>>
              ELSE LET st == Explore(1, algo, cur, grid,
                                     [visited |-> visited, frontier |-> rest,
                                      parent |-> parent])
                   IN  /\ pc' = "loop"
                       /\ frontier' = st.frontier
                       /\ visited' = st.visited
                       /\ parent' = st.parent
    /\ UNCHANGED <<grid, start, end, algo, path, result, returned>>

\* The frontier is empty: return []
Exhaust ==
    /\ pc = "loop"
    /\ frontier = <<>>
    /\ pc' = "idle"
    /\ result' = [result EXCEPT ![algo] = <<>>]
    /\ returned' = returned \cup {algo}
    /\ UNCHANGED <<grid, start, end, algo, frontier, visited, parent, current,
                   path, pops>>

\* One iteration of `while current:`
ReconstructStep ==
    /\ pc = "reconstruct"
    /\ Truthy(current)
    /\ path' = Append(path, current)
    /\ current' = parent[current]
    /\ UNCHANGED <<grid, start, end, algo, pc, frontier, visited, parent,
                   result, returned, pops>>

\* return path[::-1]
Return ==
    /\ pc = "reconstruct"
    /\ ~Truthy(current)
    /\ pc' = "idle"
    /\ result' = [result EXCEPT ![algo] = Reverse(path)]
    /\ returned' = returned \cup {algo}
    /\ UNCHANGED <<grid, start, end, algo, frontier, visited, parent, current,
                   path, pops>>

\* Any coordinates as start and destination, inside the grid or not.
InitAny ==
    /\ \E shape \in AnyShapes :
          /\ grid \in Grids(shape)
          /\ start \in AnyCells(shape)
          /\ end \in AnyCells(shape)
    /\ Idle

InitFair ==
    /\ \E shape \in FairShapes :
          /\ grid \in Grids(shape)
          /\ start \in Cells(shape)
          /\ end \in Cells(shape)
    /\ Idle

CallBfs == Call("bfs")

CallDfs == Call("dfs")

Next ==
    \/ CallBfs /\ UNCHANGED appVars
    \/ CallDfs /\ UNCHANGED appVars
    \/ Expand /\ UNCHANGED appVars
    \/ Exhaust /\ UNCHANGED appVars
    \/ ReconstructStep /\ UNCHANGED appVars
    \/ Return /\ UNCHANGED appVars

Spec == Init /\ [][Next]_vars

SpecAny == InitAny /\ [][Next]_vars

\* A call, once made, runs on: nothing suspends the loops of bfs and dfs.
Running ==
    /\ Expand \/ Exhaust \/ ReconstructStep \/ Return
    /\ UNCHANGED appVars

FairSpec == InitFair /\ [][Next]_vars /\ WF_vars(Running)

-----------------------------------------------------------------------------
(* RobotPuzzleApp *)

\* The pixel coordinates of the clicks explored: the first and the last
\* pixel of every row and column of the canvas.
Pixels ==
    {k * cell_size : k \in 0..(GridSize - 1)}
        \cup {k * cell_size + cell_size - 1 : k \in 0..(GridSize - 1)}

\* RobotPuzzleApp.__init__
InitApp ==
    /\ grid = create_grid(GridSize, GridSize)
    /\ start = <<0, 0>>
    /\ end = None
    /\ Idle

\* set_destination_or_obstacle(event) with event.x = ex, event.y = ey.  A
\* handler runs only between two other handlers, never inside a search.
Click(ex, ey) ==
    /\ pc = "idle"
    /\ LET x == ey \div cell_size
           y == ex \div cell_size
       IN  IF <<x, y>> = start
           THEN UNCHANGED <<grid, end>>
           ELSE IF grid[x][y] = 0
                THEN IF end = None
                     THEN /\ end' = <<x, y>>
                          /\ UNCHANGED grid
                     ELSE /\ grid' = [grid EXCEPT ![x][y] = 1]
                          /\ UNCHANGED end
                ELSE /\ grid' = [grid EXCEPT ![x][y] = 0]
                     /\ UNCHANGED end
    /\ UNCHANGED <<start, algo, pc, frontier, visited, parent, current, path,
                   result, returned, pops, robot, timers>>

\* find_path_bfs / find_path_dfs up to the loop of the search: without a
\* destination the handler prints a message and returns.
FindPath(a) ==
    /\ pc = "idle"
    /\ Len(timers) < MaxAnimations
    /\ IF ~Truthy(end)
       THEN UNCHANGED vars
       ELSE Call(a) /\ UNCHANGED appVars

\* The colour find_path_bfs / find_path_dfs gives to the marks of its path
Colour(a) == IF a = "bfs" THEN "blue" ELSE "green"

\* The search found no path: "No path found" is printed.
NoPathFound ==
    /\ Exhaust
    /\ UNCHANGED appVars

\* The search returned a path: animate_robot(path, color) creates the robot
\* if there is none and calls move_robot(0), which puts the robot on the
\* first cell of the path and schedules move_robot(1).
Animate ==
    /\ Return
    /\ robot' = TRUE
    /\ timers' = Append(timers, [path |-> result'[algo], i |-> 1,
                                  color |-> Colour(algo)])

\* move_robot(i), called by the timer that is due first: inside the path it
\* marks the cell, moves the robot and schedules move_robot(i + 1); past the
\* end it does nothing.
MoveRobot ==
    /\ pc = "idle"
    /\ timers # <<>>
    /\ LET t == Head(timers)
       IN  IF t.i < Len(t.path)
           THEN timers' = Append(Tail(timers), [t EXCEPT !.i = t.i + 1])
           ELSE timers' = Tail(timers)
    /\ UNCHANGED <<grid, start, end, algo, pc, frontier, visited, parent,
                   current, path, result, returned, pops, robot>>

FindPathBfs == FindPath("bfs")

FindPathDfs == FindPath("dfs")

NextApp ==
    \/ \E ex, ey \in Pixels : Click(ex, ey)
    \/ FindPathBfs
    \/ FindPathDfs
    \/ Expand /\ UNCHANGED appVars
    \/ ReconstructStep /\ UNCHANGED appVars
    \/ NoPathFound
    \/ Animate
    \/ MoveRobot

SpecApp == InitApp /\ [][NextApp]_vars

-----------------------------------------------------------------------------
(* Reference notions the properties are stated with *)

Abs(n) == IF n < 0 THEN -n ELSE n

\* Two cells one up/down/left/right step apart
Adjacent(c, d) == Abs(c[1] - d[1]) + Abs(c[2] - d[2]) = 1

\* The in-bounds free cells one step from a cell of S
FreeNeighbours(g, S) ==
    {n \in GridCells(g) : g[n[1]][n[2]] = 0 /\ \E c \in S : Adjacent(c, n)}

\* The cells reached from the cells of S in at most k steps through free cells
RECURSIVE Within(_, _, _)
Within(g, S, k) ==
    LET T == {c : c \in S \cup FreeNeighbours(g, S)}
    IN  IF k = 0 \/ T = S THEN S ELSE Within(g, T, k - 1)

\* e is reached from s by steps through in-bounds free cells (s itself may be blocked)
Reachable(g, s, e) == e \in Within(g, {s}, NumRows(g) * NumCols(g))

\* The least number of steps from a cell of S to e, counted from k; e is reachable
RECURSIVE StepsTo(_, _, _, _)
StepsTo(g, S, e, k) ==
    IF e \in S THEN k
    ELSE StepsTo(g, {c : c \in S \cup FreeNeighbours(g, S)}, e, k + 1)

Distance(g, s, e) == StepsTo(g, {s}, e, 0)

Manhattan(c, d) == Abs(c[1] - d[1]) + Abs(c[2] - d[2])

Algos == {"bfs", "dfs"}

\* The four offsets in the order up, down, left, right
Offsets == << <<-1, 0>>, <<1, 0>>, <<0, -1>>, <<0, 1>> >>

\* The shortest walk from c to e that takes, at every cell, the first offset
\* in the order up, down, left, right that lies on some shortest walk; d is
\* the distance from c to e.
RECURSIVE FirstOffsetWalk(_, _, _, _)
FirstOffsetWalk(g, c, e, d) ==
    IF d = 0 THEN <<c>>
    ELSE LET Fits(i) ==
                 LET n == <<c[1] + Offsets[i][1], c[2] + Offsets[i][2]>>
                 IN  /\ n \in GridCells(g)
                     /\ g[n[1]][n[2]] = 0
                     /\ Reachable(g, n, e)
                     /\ Distance(g, n, e) = d - 1
             i == CHOOSE j \in 1..4 : Fits(j) /\ \A k \in 1..(j - 1) : ~Fits(k)
         IN  <<c>> \o FirstOffsetWalk(g, <<c[1] + Offsets[i][1], c[2] + Offsets[i][2]>>,
                                       e, d - 1)

-----------------------------------------------------------------------------
(* Properties *)

\* C1: when the destination can be reached from start by up/down/left/right
\* steps through free cells, the path bfs returns has the least possible
\* number of cells: the length of a shortest such walk plus one.
C1_BfsShortest ==
    (pc = "idle" /\ "bfs" \in returned /\ Reachable(grid, start, end))
        => Len(result["bfs"]) = Distance(grid, start, end) + 1

\* A bfs call has returned on a grid with obstacles where the destination is
\* at least three steps away and the shortest way is a detour.
C1_Witness ==
    /\ pc = "idle"
    /\ "bfs" \in returned
    /\ Blocked(grid) # {}
    /\ Reachable(grid, start, end)
    /\ Distance(grid, start, end) > Manhattan(start, end)
    /\ Len(result["bfs"]) = Distance(grid, start, end) + 1

\* C2: bfs and dfs each return a non-empty path iff the destination can be
\* reached from start through in-bounds free cells (start itself explorable
\* even when blocked); otherwise both return the empty path.
C2_PathIffReachable ==
    (pc = "idle" /\ returned # {}) =>
        \A a \in returned : (result[a] # <<>>) <=> Reachable(grid, start, end)

\* Both searches have returned empty for a free destination that obstacles
\* cut off from start.
C2_Witness ==
    /\ returned = Algos
    /\ grid[end[1]][end[2]] = 0
    /\ grid[start[1]][start[2]] = 0
    /\ ~Reachable(grid, start, end)
    /\ result["bfs"] = <<>>
    /\ result["dfs"] = <<>>

\* C3: a non-empty path returned by bfs or dfs begins with start and ends
\* with the destination.
C3_Endpoints ==
    \A a \in returned :
        result[a] # <<>> =>
            /\ result[a][1] = start
            /\ result[a][Len(result[a])] = end

\* Both searches have returned a path of several cells between distinct cells.
C3_Witness ==
    /\ returned = Algos
    /\ start # end
    /\ Len(result["bfs"]) >= 3
    /\ Len(result["dfs"]) >= 3

\* C4: consecutive cells of a returned path are exactly one up, down, left
\* or right step apart.
C4_UnitSteps ==
    \A a \in returned :
        \A k \in 1..(Len(result[a]) - 1) :
            <<result[a][k + 1][1] - result[a][k][1],
              result[a][k + 1][2] - result[a][k][2]>>
                \in {<<-1, 0>>, <<1, 0>>, <<0, -1>>, <<0, 1>>}

\* dfs has returned a path that turns: it holds a vertical and a horizontal step.
C4_Witness ==
    /\ "dfs" \in returned
    /\ \E j, k \in 1..(Len(result["dfs"]) - 1) :
          /\ result["dfs"][j + 1][1] # result["dfs"][j][1]
          /\ result["dfs"][k + 1][2] # result["dfs"][k][2]


\* C5: bfs and dfs never fault, whatever the start and destination
\* coordinates, inside the grid or outside it.
C5_NeverFaults == pc # "fault"

\* C6 as stated: with a blocked destination both searches return the empty
\* path, whether or not start equals the destination.
C6_BlockedDestinationEmpty ==
    \A a \in returned :
        grid[end[1]][end[2]] = 1 => result[a] = <<>>

\* C6 amended: with a blocked destination other than start both searches
\* return the empty path; with start on the blocked destination itself they
\* return the one-cell path [start].
C6_BlockedDestination ==
    \A a \in returned :
        grid[end[1]][end[2]] = 1 =>
            result[a] = IF start = end THEN <<start>> ELSE <<>>

\* Both searches have returned empty for a blocked destination right next to
\* a free start.
C6_Witness ==
    /\ returned = Algos
    /\ grid[end[1]][end[2]] = 1
    /\ grid[start[1]][start[2]] = 0
    /\ Adjacent(start, end)
    /\ result["bfs"] = <<>>
    /\ result["dfs"] = <<>>

\* C7: on a grid without blocked cells the path bfs returns between (r1,c1)
\* and (r2,c2) has exactly |r1-r2| + |c1-c2| + 1 cells.
C7_ManhattanLength ==
    ("bfs" \in returned /\ Blocked(grid) = {})
        => Len(result["bfs"]) = Manhattan(start, end) + 1

\* bfs has returned between opposite corners of an obstacle-free grid of
\* several rows and columns.
C7_Witness ==
    /\ "bfs" \in returned
    /\ Blocked(grid) = {}
    /\ Abs(start[1] - end[1]) >= 2
    /\ Abs(start[2] - end[2]) >= 2
    /\ Len(result["bfs"]) = Manhattan(start, end) + 1

\* C8: with start and destination the same free cell s, bfs and dfs each
\* return the one-cell path [s], whatever the obstacles around s.
C8_StartIsDestination ==
    \A a \in returned :
        (start = end /\ grid[start[1]][start[2]] = 0) => result[a] = <<start>>

\* Both searches have returned [s] for a free cell s next to an obstacle.
C8_Witness ==
    /\ returned = Algos
    /\ start = end
    /\ grid[start[1]][start[2]] = 0
    /\ \E b \in Blocked(grid) : Adjacent(start, b)
    /\ result["bfs"] = <<start>>
    /\ result["dfs"] = <<start>>

\* C9: when bfs and dfs both return a non-empty path for the same grid,
\* start and destination, the bfs path has no more cells than the dfs path.
C9_BfsNoLongerThanDfs ==
    (returned = Algos /\ result["bfs"] # <<>> /\ result["dfs"] # <<>>)
        => Len(result["bfs"]) <= Len(result["dfs"])

\* Both have returned and the dfs path is strictly longer than the bfs path.
C9_Witness ==
    /\ returned = Algos
    /\ result["bfs"] # <<>>
    /\ Len(result["bfs"]) < Len(result["dfs"])


\* C10: every call with an in-bounds start terminates: the search loop ends,
\* by removing the destination from the frontier or by emptying the frontier,
\* after at most rows x cols removals, and the loop that follows the
\* predecessors back from the destination ends too.
C10_Terminates ==
    /\ [](pops <= NumRows(grid) * NumCols(grid))
    /\ (pc = "loop") ~> (pc = "reconstruct" \/ (pc = "idle" /\ frontier = <<>>))
    /\ (pc = "reconstruct") ~> (pc = "idle")

\* A call has returned a path after removing every cell of a grid of several
\* rows from the frontier.
C10_Witness ==
    /\ pc = "idle"
    /\ algo \in returned
    /\ NumRows(grid) >= 2
    /\ pops = NumRows(grid) * NumCols(grid)
    /\ result[algo] # <<>>


\* C11: among the shortest paths bfs returns the one fixed by trying the
\* offsets in the order up, down, left, right and keeping the predecessor
\* found first; on the 3x3 grid without obstacles, from (0,0) to (2,2), it is
\* (0,0),(1,0),(2,0),(2,1),(2,2).
C11_BfsTieBreak ==
    (pc = "idle" /\ "bfs" \in returned /\ Reachable(grid, start, end)) =>
        /\ result["bfs"] =
               FirstOffsetWalk(grid, start, end, Distance(grid, start, end))
        /\ (grid = create_grid(3, 3) /\ start = <<0, 0>> /\ end = <<2, 2>>) =>
               result["bfs"] = << <<0, 0>>, <<1, 0>>, <<2, 0>>, <<2, 1>>, <<2, 2>> >>

\* bfs has returned the five-cell path of the 3x3 scenario.
C11_Witness ==
    /\ pc = "idle"
    /\ "bfs" \in returned
    /\ grid = create_grid(3, 3)
    /\ start = <<0, 0>>
    /\ end = <<2, 2>>
    /\ result["bfs"] = << <<0, 0>>, <<1, 0>>, <<2, 0>>, <<2, 1>>, <<2, 2>> >>


\* C12: a bfs or dfs call leaves the grid as it was: no step of a call
\* changes the occupancy of a cell or the dimensions of the grid, nor the
\* start and destination it was given.
C12_GridUnchanged ==
    [][grid' = grid /\ start' = start /\ end' = end]_vars

\* Both searches have run to their return on a grid with obstacles, dfs
\* removing at least four cells and returning a path of at least four cells.
C12_Witness ==
    /\ pc = "idle"
    /\ returned = Algos
    /\ algo = "dfs"
    /\ Blocked(grid) # {}
    /\ pops >= 4
    /\ Len(result["dfs"]) >= 4

\* C13: a second call of bfs, or of dfs, on the same grid, start and
\* destination returns the path the first call returned.
C13_SameResultAgain ==
    [][(pc # "idle" /\ pc' = "idle" /\ algo \in returned)
          => result'[algo] = result[algo]]_vars

\* A search that has already returned a path of several cells was called
\* again and is about to return the same path.
C13_Witness ==
    /\ pc = "reconstruct"
    /\ ~Truthy(current)
    /\ algo \in returned
    /\ Len(result[algo]) >= 3
    /\ Reverse(path) = result[algo]


\* The number of places of the sequence q that hold c
Occurrences(q, c) == Cardinality({k \in 1..Len(q) : q[k] = c})

\* The cells a step adds to the frontier
Pushed == {c \in GridCells(grid) : Occurrences(frontier', c) > Occurrences(frontier, c)}

\* C15: during a call every cell is marked visited and put on the frontier
\* at most once, its predecessor entry is written once, when it is first
\* found, and never changed afterwards; the entry of start stays None.
C15_DiscoveredOnce ==
    /\ [](pc \in {"loop", "reconstruct"} =>
             /\ start \in DOMAIN parent
             /\ parent[start] = None
             /\ \A c \in GridCells(grid) : Occurrences(frontier, c) <= 1)
    /\ [][pc = "loop" =>
             /\ \A c \in DOMAIN parent :
                    c \in DOMAIN parent' /\ parent'[c] = parent[c]
             /\ \A c \in GridCells(grid) : visited[c[1]][c[2]] => visited'[c[1]][c[2]]
             /\ \A c \in Pushed :
                    /\ ~visited[c[1]][c[2]] /\ visited'[c[1]][c[2]]
                    /\ c \notin DOMAIN parent /\ c \in DOMAIN parent'
             /\ \A c \in GridCells(grid) :
                    (visited'[c[1]][c[2]] /\ ~visited[c[1]][c[2]]) => c \in Pushed
             /\ DOMAIN parent' \ DOMAIN parent = Pushed]_vars

\* A search is under way in which a cell waiting on the frontier lies next to
\* a second cell that was expanded after the cell was found.
C15_Witness ==
    /\ pc = "loop"
    /\ pops >= 3
    /\ \E k \in 1..Len(frontier) :
          /\ Adjacent(frontier[k], current)
          /\ parent[frontier[k]] # current


\* The cells met by following predecessor entries from c, c first, for at
\* most n links
RECURSIVE Chain(_, _, _)
Chain(par, c, n) ==
    IF c = None \/ c \notin DOMAIN par THEN <<>>
    ELSE IF n = 0 THEN <<c>>
    ELSE <<c>> \o Chain(par, par[c], n - 1)

\* Following the predecessors from c ends at start, whose entry is None,
\* after fewer links than there are discovered cells, and meets no cell twice.
LeadsToStart(par, c) ==
    LET ch == Chain(par, c, Cardinality(DOMAIN par))
    IN  /\ Len(ch) <= Cardinality(DOMAIN par)
        /\ ch[Len(ch)] = start
        /\ par[start] = None
        /\ \A j, k \in 1..Len(ch) : ch[j] = ch[k] => j = k

\* C16: at every point of a call, following predecessor entries from any
\* discovered cell reaches start (whose entry is None) after finitely many
\* links without meeting a cell twice; the path reconstructed for a reached
\* destination is that chain, one cell more than the links followed.
C16_ChainsLeadToStart ==
    /\ pc \in {"loop", "reconstruct"} =>
           \A c \in DOMAIN parent : LeadsToStart(parent, c)
    /\ (pc = "reconstruct" /\ ~Truthy(current)) =>
           /\ path = Chain(parent, end, Cardinality(DOMAIN parent))
           /\ Len(path) = Cardinality({k \in 1..Len(path) : parent[path[k]] # None}) + 1

\* The path of a reached destination has been collected: four cells or more,
\* in a search that discovered cells off the path as well.
C16_Witness ==
    /\ pc = "reconstruct"
    /\ ~Truthy(current)
    /\ Len(path) >= 4
    /\ Cardinality(DOMAIN parent) > Len(path)
    /\ \A c \in DOMAIN parent : LeadsToStart(parent, c)


\* The place, in the order up, down, left, right, of the offset from p to c
OffsetIndex(p, c) ==
    CHOOSE i \in 1..4 : c = <<p[1] + Offsets[i][1], p[2] + Offsets[i][2]>>

\* The cells found from the same cell as c, in the same expansion
Siblings(c) == {s \in DOMAIN parent : s # c /\ parent[s] = parent[c]}

\* C17: dfs always removes the cell pushed last, so the neighbours pushed
\* by one expansion are removed in the reverse of the offset order: when one
\* of them is removed, those that come after it in the order up, down, left,
\* right have been removed already and those before it are still waiting.
C17_DfsNewestFirst ==
    [][(pc = "loop" /\ algo = "dfs" /\ frontier # <<>>) =>
          /\ current' = frontier[Len(frontier)]
          /\ parent[current'] # None =>
                \A s \in Siblings(current') :
                    IF OffsetIndex(parent[s], s) > OffsetIndex(parent[s], current')
                    THEN Occurrences(frontier, s) = 0
                    ELSE Occurrences(frontier, s) = 1]_vars

\* dfs has just removed a cell one of whose siblings, later in the offset
\* order, was removed before it while another, earlier in the order, waits.
C17_Witness ==
    /\ pc = "loop"
    /\ algo = "dfs"
    /\ current # None
    /\ parent[current] # None
    /\ \E s \in Siblings(current) :
          /\ OffsetIndex(parent[s], s) > OffsetIndex(parent[s], current)
          /\ Occurrences(frontier, s) = 0
    /\ \E s \in Siblings(current) :
          /\ OffsetIndex(parent[s], s) < OffsetIndex(parent[s], current)
          /\ Occurrences(frontier, s) = 1


\* C18: every cell of a path returned for an in-bounds start lies inside
\* the grid, every cell of it other than start is free, and no cell occurs
\* in it twice.
C18_PathCellsValid ==
    \A a \in returned :
        /\ \A k \in 1..Len(result[a]) :
               /\ result[a][k] \in GridCells(grid)
               /\ result[a][k] # start => grid[result[a][k][1]][result[a][k][2]] = 0
        /\ \A j, k \in 1..Len(result[a]) : result[a][j] = result[a][k] => j = k

\* Both searches have returned a path of several cells from a blocked start
\* on a grid with a further obstacle.
C18_Witness ==
    /\ returned = Algos
    /\ grid[start[1]][start[2]] = 1
    /\ Cardinality(Blocked(grid)) >= 2
    /\ Len(result["bfs"]) >= 3
    /\ Len(result["dfs"]) >= 3

\* The distance of a discovered cell from start
FromStart(c) == Distance(grid, start, c)

\* C20: during a bfs call the cells leave the queue in non-decreasing order
\* of their distance from start, the distances of the cells waiting in the
\* queue differ by at most 1, and the predecessor of every cell is one step
\* nearer to start than the cell.
C20_BfsLayers ==
    /\ []((pc = "loop" /\ algo = "bfs") =>
             /\ \A k \in 1..(Len(frontier) - 1) :
                    FromStart(frontier[k]) <= FromStart(frontier[k + 1])
             /\ frontier # <<>> =>
                    FromStart(frontier[Len(frontier)]) - FromStart(frontier[1]) <= 1
             /\ \A c \in DOMAIN parent :
                    parent[c] # None => FromStart(c) = FromStart(parent[c]) + 1)
    /\ [][(pc = "loop" /\ algo = "bfs" /\ frontier # <<>> /\ current # None) =>
             FromStart(current') >= FromStart(current)]_vars

\* A bfs call is under way with cells of two distances waiting in the queue,
\* after several removals.
C20_Witness ==
    /\ pc = "loop"
    /\ algo = "bfs"
    /\ pops >= 3
    /\ Len(frontier) >= 2
    /\ FromStart(frontier[Len(frontier)]) = FromStart(frontier[1]) + 1
    /\ FromStart(frontier[1]) >= FromStart(current)


\* A path is still being played: some scheduled move_robot has a cell left
Animating == \E k \in 1..Len(timers) : timers[k].i < Len(timers[k].path)

\* C14: in the application, while a returned path is still being played no
\* click changes the occupancy of a cell and no second search or animation
\* is started.
C14_ExclusiveAnimation ==
    [][Animating =>
          /\ grid' = grid
          /\ pc' = "idle"
          /\ Len(timers') <= Len(timers)]_vars

\* C19: in the application, whenever a destination is set its cell is free,
\* so no search is given a blocked destination.
C19_DestinationFree ==
    Truthy(end) => grid[end[1]][end[2]] = 0

=============================================================================
